---- MODULE Spec2Model ----
(***************************************************************************)
(* EstruturaIAGen: the in-process cache subsystem.                         *)
(*                                                                         *)
(*   app/cache/cache_manager.py   CacheManager (LRU + TTL + Redis mirror)  *)
(*   app/cache/decorators.py      _generate_cache_key, @cached             *)
(*   app/cache/dashboard_cache.py get_dashboard_metrics / _stats           *)
(*   src/utils/rate_limiter.py    RateLimiter                              *)
(*                                                                         *)
(* Four CacheManager instances are driven by the same calls.  "plain" is   *)
(* constructed without REDIS_URL (redis_client is None); the others have a *)
(* Redis client: "reachable" to a server that answers every call, "down"   *)
(* to one whose every call raises, "flaky" to one whose calls may raise.   *)
(***************************************************************************)
EXTENDS Integers, Sequences, FiniteSets, TLC

\* ------------------------------------------------------------ configuration

\* CacheManager(max_size=..., default_ttl=...): the constructor's arguments.
max_size == 2
default_ttl == 2

\* Bounds of the exploration.
MaxTime == 2
MaxCalls == 4

\* The largest counters get_stats is asked to report.
MaxHits == 5
MaxMisses == 5

\* RateLimiter(max_calls=..., period=...): the constructor's arguments.
max_calls == 2
period == 2

\* The number of is_allowed calls explored, and how far the limiter's clock
\* runs.
MaxAsked == 5
MaxClock == 4

Worlds == {"plain", "reachable", "down", "flaky"}

\* Keys are tuples of strings.  Raw keys passed to the manager:
Keys == {<<"k1">>, <<"k2">>, <<"k3">>}

\* The key of a call that has none.
NoKey == <<>>

\* Python values a caller stores: a str, and a tuple (which JSON has no form
\* for).  None is Python's None, "lst" the list a tuple comes back as, "15"
\* an int.
None == "None"
Values == {"v1", "tup"}

\* ttl arguments: 0 stands for a falsy ttl (None or 0), replaced by default_ttl.
TTLs == {0, 1}

\* The (value, ttl) pairs a caller passes to set.
SetArgs == {<<"v1", 0>>, <<"tup", 1>>}

\* --------------------------------------------------------------- JSON, Redis

\* json.dumps(value, default=str): the JSON document of a value.  A tuple is
\* written as an array.
json_dumps(value) ==
    [kind |-> "json", val |-> IF value = "tup" THEN "lst" ELSE value]

\* json.loads(payload) raises on a payload that is no JSON document.
json_loads_raises(payload) == payload.kind # "json"

\* json.loads(payload): an array is read back as a list.
json_loads(payload) == payload.val

\* A key the mirror does not hold.
RedisNil == [kind |-> "nil", val |-> None, expires_at |-> 0]

\* A payload another client of the shared service wrote: not JSON, no expiry.
RedisForeign == [kind |-> "raw", val |-> None, expires_at |-> -1]

RedisLive(slot, t) ==
    /\ slot.kind # "nil"
    /\ (slot.expires_at = -1 \/ slot.expires_at > t)

\* redis_client.get(key): the payload, or nil for a missing or expired key.
redis_get(db, key, t) == IF RedisLive(db[key], t) THEN db[key] ELSE RedisNil

\* redis_client.setex(key, ttl, payload)
redis_setex(db, key, ttl, payload, t) ==
    [db EXCEPT ![key] = [kind |-> payload.kind, val |-> payload.val,
                         expires_at |-> t + ttl]]

\* redis_client.delete(key)
redis_delete(db, key) == [db EXCEPT ![key] = RedisNil]

\* redis_client.flushdb()
redis_flushdb(db) == [k \in DOMAIN db |-> RedisNil]

\* The server drops the keys whose expiry has passed.
redis_expire(db, t) ==
    [k \in DOMAIN db |-> IF RedisLive(db[k], t) THEN db[k] ELSE RedisNil]

\* ------------------------------------------------------------- OrderedDict

\* self.cache: an OrderedDict, as the sequence of its entries in order.
KeyIn(cache, key) == \E i \in 1..Len(cache) : cache[i].key = key

EntryOf(cache, key) == cache[CHOOSE i \in 1..Len(cache) : cache[i].key = key]

\* del self.cache[key]
DelKey(cache, key) == SelectSeq(cache, LAMBDA e : e.key # key)

\* A get that forgets to refresh the recency of the key it read.
keep_position(cache, key) == cache

\* self.cache.move_to_end(key)
move_to_end(cache, key) == Append(DelKey(cache, key), EntryOf(cache, key))

KeysOf(cache) == {cache[i].key : i \in 1..Len(cache)}

\* ------------------------------------------------------------ CacheManager

\* CacheManager.__init__
NewManager(with_redis) ==
    [cache |-> <<>>,
     stats |-> [hits |-> 0, misses |-> 0, evictions |-> 0, total_requests |-> 0],
     redis_client |-> with_redis, max_size |-> max_size]

\* The local lookup with the expiry test off by one: an entry is still served
\* at the very second it expires.
get_local_inclusive(m, stats, key, t) ==
    IF KeyIn(m.cache, key)
    THEN LET entry == EntryOf(m.cache, key) IN
         IF entry.expires_at >= t
         THEN [m      |-> [m EXCEPT !.stats = [stats EXCEPT !.hits = @ + 1],
                                    !.cache = move_to_end(m.cache, key)],
               ret    |-> entry.value,
               path   |-> "local_hit"]
         ELSE [m      |-> [m EXCEPT !.stats = [stats EXCEPT !.misses = @ + 1],
                                    !.cache = DelKey(m.cache, key)],
               ret    |-> None,
               path   |-> "expired"]
    ELSE [m    |-> [m EXCEPT !.stats = [stats EXCEPT !.misses = @ + 1]],
          ret  |-> None,
          path |-> "miss"]

\* A get whose hit gives the entry a new lifetime.
get_local_extends(m, stats, key, t) ==
    IF KeyIn(m.cache, key)
    THEN LET entry == EntryOf(m.cache, key) IN
         IF entry.expires_at > t
         THEN [m      |-> [m EXCEPT !.stats = [stats EXCEPT !.hits = @ + 1],
                                    !.cache = Append(DelKey(m.cache, key),
                                                     [entry EXCEPT !.expires_at =
                                                                       t + default_ttl])],
               ret    |-> entry.value,
               path   |-> "local_hit"]
         ELSE [m      |-> [m EXCEPT !.stats = [stats EXCEPT !.misses = @ + 1],
                                    !.cache = DelKey(m.cache, key)],
               ret    |-> None,
               path   |-> "expired"]
    ELSE [m    |-> [m EXCEPT !.stats = [stats EXCEPT !.misses = @ + 1]],
          ret  |-> None,
          path |-> "miss"]

\* The local part of get (the fallback to the OrderedDict), entered with the
\* counters as the Redis part left them.
get_local(m, stats, key, t) ==
    IF KeyIn(m.cache, key)
    THEN LET entry == EntryOf(m.cache, key) IN
         IF entry.expires_at > t
         THEN [m      |-> [m EXCEPT !.stats = [stats EXCEPT !.hits = @ + 1],
                                    !.cache = move_to_end(m.cache, key)],
               ret    |-> entry.value,
               path   |-> "local_hit"]
         ELSE [m      |-> [m EXCEPT !.stats = [stats EXCEPT !.misses = @ + 1],
                                    !.cache = DelKey(m.cache, key)],
               ret    |-> None,
               path   |-> "expired"]
    ELSE [m    |-> [m EXCEPT !.stats = [stats EXCEPT !.misses = @ + 1]],
          ret  |-> None,
          path |-> "miss"]

\* A get whose Redis error is not followed by the local lookup: the call
\* answers absent as soon as the client raises.
get_no_fallback(m, db, key, t, fail) ==
    LET counted == [m.stats EXCEPT !.total_requests = @ + 1]
        value   == redis_get(db, key, t)
        truthy  == m.redis_client /\ ~fail /\ value.kind # "nil"
        hit     == IF truthy THEN [counted EXCEPT !.hits = @ + 1] ELSE counted
    IN  IF truthy /\ ~json_loads_raises(value)
        THEN [m    |-> [m EXCEPT !.stats = hit],
              ret  |-> json_loads(value),
              path |-> "redis_hit"]
        ELSE IF m.redis_client /\ fail
        THEN [m    |-> [m EXCEPT !.stats = [hit EXCEPT !.misses = @ + 1]],
              ret  |-> None,
              path |-> "miss"]
        ELSE get_local(m, hit, key, t)

\* A get that copies what the mirror answered into the local store.
get_backfill(m, db, key, t, fail) ==
    LET counted == [m.stats EXCEPT !.total_requests = @ + 1]
        value   == redis_get(db, key, t)
        truthy  == m.redis_client /\ ~fail /\ value.kind # "nil"
        hit     == IF truthy THEN [counted EXCEPT !.hits = @ + 1] ELSE counted
    IN  IF truthy /\ ~json_loads_raises(value)
        THEN [m    |-> [m EXCEPT !.stats = hit,
                                 !.cache = Append(DelKey(m.cache, key),
                                                  [key |-> key,
                                                   value |-> json_loads(value),
                                                   expires_at |-> value.expires_at])],
              ret  |-> json_loads(value),
              path |-> "redis_hit"]
        ELSE get_local(m, hit, key, t)

\* CacheManager.get(key) at time t.  db is the mirror's content and fail says
\* whether the call of the Redis client raises.
get(m, db, key, t, fail) ==
    LET counted == [m.stats EXCEPT !.total_requests = @ + 1]
        value   == redis_get(db, key, t)
        truthy  == m.redis_client /\ ~fail /\ value.kind # "nil"
        hit     == IF truthy THEN [counted EXCEPT !.hits = @ + 1] ELSE counted
    IN  IF truthy /\ ~json_loads_raises(value)
        THEN [m    |-> [m EXCEPT !.stats = hit],
              ret  |-> json_loads(value),
              path |-> "redis_hit"]
        ELSE get_local(m, hit, key, t)

\* A set that inserts the new entry first and evicts afterwards.
set_local_insert_first(m, key, value, ttl, t) ==
    LET expires_at == t + ttl
        c0     == m.cache
        c1     == IF KeyIn(c0, key) THEN DelKey(c0, key) ELSE c0
        c2     == Append(c1, [key |-> key, value |-> value,
                              expires_at |-> expires_at])
        full   == Len(c2) > m.max_size
        c3     == IF full THEN Tail(c2) ELSE c2
    IN  [m |-> [m EXCEPT !.cache = c3,
                         !.stats.evictions = IF full THEN @ + 1 ELSE @],
         steps |-> <<c0, c1, c2, c3>>, raised |-> FALSE]

\* A set that evicts the most recently used entry instead of the least
\* recently used one.
set_local_evicts_newest(m, key, value, ttl, t) ==
    LET expires_at == t + ttl
        c0     == m.cache
        c1     == IF KeyIn(c0, key) THEN DelKey(c0, key) ELSE c0
        full   == Len(c1) >= m.max_size
        c2     == IF full THEN SubSeq(c1, 1, Len(c1) - 1) ELSE c1
        c3     == Append(c2, [key |-> key, value |-> value,
                              expires_at |-> expires_at])
    IN  [m |-> [m EXCEPT !.cache = c3,
                         !.stats.evictions = IF full THEN @ + 1 ELSE @],
         steps |-> <<c0, c1, c2, c3>>, raised |-> FALSE]

\* A set that makes room by removing an expired entry when there is one, and
\* the least recently used entry otherwise.
set_local_evicts_expired_first(m, key, value, ttl, t) ==
    LET expires_at == t + ttl
        c0     == m.cache
        c1     == IF KeyIn(c0, key) THEN DelKey(c0, key) ELSE c0
        full   == Len(c1) >= m.max_size
        dead   == {i \in 1..Len(c1) : c1[i].expires_at <= t}
        victim == IF dead = {} THEN 1
                  ELSE CHOOSE i \in dead : \A j \in dead : i <= j
        c2     == IF full THEN DelKey(c1, c1[victim].key) ELSE c1
        c3     == Append(c2, [key |-> key, value |-> value,
                              expires_at |-> expires_at])
    IN  [m |-> [m EXCEPT !.cache = c3,
                         !.stats.evictions = IF full THEN @ + 1 ELSE @],
         steps |-> <<c0, c1, c2, c3>>, raised |-> FALSE]

\* The local part of set: the successive contents of the OrderedDict, and
\* whether next(iter(self.cache)) raised StopIteration on an empty dict.
set_local(m, key, value, ttl, t) ==
    LET expires_at == t + ttl
        c0     == m.cache
        c1     == IF KeyIn(c0, key) THEN DelKey(c0, key) ELSE c0
        full   == Len(c1) >= m.max_size
        raises == full /\ Len(c1) = 0
        c2     == IF full /\ ~raises THEN Tail(c1) ELSE c1
        c3     == Append(c2, [key |-> key, value |-> value,
                              expires_at |-> expires_at])
    IN  IF raises
        THEN [m |-> [m EXCEPT !.cache = c1], steps |-> <<c0, c1>>, raised |-> TRUE]
        ELSE [m |-> [m EXCEPT !.cache = c3,
                              !.stats.evictions = IF full THEN @ + 1 ELSE @],
              steps |-> <<c0, c1, c2, c3>>, raised |-> FALSE]

\* A set that hands the caller's ttl to setex as it came: with a falsy ttl
\* setex raises (invalid expire time) and the mirror keeps what it had.
set_redis_raw_ttl(m, db, key, value, ttl, t, fail) ==
    IF m.redis_client /\ ~fail /\ ttl > 0
    THEN redis_setex(db, key, ttl, json_dumps(value), t)
    ELSE db

\* The mirror after set: setex is skipped when there is no client or the call
\* raises.
set_redis(m, db, key, value, ttl, t, fail) ==
    IF m.redis_client /\ ~fail
    THEN redis_setex(db, key, IF ttl = 0 THEN default_ttl ELSE ttl,
                     json_dumps(value), t)
    ELSE db

\* CacheManager.set(key, value, ttl) at time t.
set(m, key, value, ttl, t) ==
    set_local(m, key, value, IF ttl = 0 THEN default_ttl ELSE ttl, t)

\* f"{x:.2f}" of the quotient x = num / den: the nearest multiple of 0.01 (a
\* tie goes to the even one), as its whole part and its two decimals.
format_2f(num, den) ==
    LET scaled == num * 100
        q      == scaled \div den
        r      == scaled % den
        cents  == IF 2 * r > den \/ (2 * r = den /\ q % 2 = 1) THEN q + 1 ELSE q
    IN  <<cents \div 100, cents % 100>>

\* A get_stats that divides without looking at total_requests: with no
\* request yet the division raises ZeroDivisionError.
get_stats_unguarded(m, t) ==
    LET total == m.stats.total_requests IN
    [ret |-> [hits |-> m.stats.hits, misses |-> m.stats.misses,
              evictions |-> m.stats.evictions, total_requests |-> total,
              hit_rate |-> IF total > 0 THEN format_2f(m.stats.hits * 100, total)
                           ELSE <<0, 0>>,
              cache_size |-> Len(m.cache), max_size |-> m.max_size,
              redis_connected |-> m.redis_client, timestamp |-> t],
     raised |-> total = 0]

\* CacheManager.get_stats() at time t.  hit_rate is the text before the "%",
\* as the pair of its whole part and its two decimals.
get_stats(m, t) ==
    LET total    == m.stats.total_requests
        hit_rate == IF total > 0 THEN format_2f(m.stats.hits * 100, total)
                    ELSE format_2f(0, 1)
    IN  [ret |-> [hits |-> m.stats.hits, misses |-> m.stats.misses,
                  evictions |-> m.stats.evictions, total_requests |-> total,
                  hit_rate |-> hit_rate,
                  cache_size |-> Len(m.cache), max_size |-> m.max_size,
                  redis_connected |-> m.redis_client, timestamp |-> t],
         raised |-> FALSE]

\* A clear that also resets the counters.
clear_resets_stats(m) ==
    [m EXCEPT !.cache = <<>>,
              !.stats = [hits |-> 0, misses |-> 0, evictions |-> 0,
                         total_requests |-> 0]]

\* An invalidate without the membership test: del raises KeyError on a key
\* the store does not hold.
invalidate_unguarded(m, key) ==
    IF KeyIn(m.cache, key)
    THEN [m |-> [m EXCEPT !.cache = DelKey(m.cache, key)], raised |-> FALSE]
    ELSE [m |-> m, raised |-> TRUE]

\* CacheManager.invalidate(key): the local part.  raised: whether a KeyError
\* leaves the call.
invalidate(m, key) ==
    IF KeyIn(m.cache, key)
    THEN [m |-> [m EXCEPT !.cache = DelKey(m.cache, key)], raised |-> FALSE]
    ELSE [m |-> m, raised |-> FALSE]

\* The mirror after invalidate.
invalidate_redis(m, db, key, fail) ==
    IF m.redis_client /\ ~fail THEN redis_delete(db, key) ELSE db

\* CacheManager.clear(): the local part.
clear(m) == [m EXCEPT !.cache = <<>>]

\* The mirror after clear.
clear_redis(m, db, fail) ==
    IF m.redis_client /\ ~fail THEN redis_flushdb(db) ELSE db

\* A sweep with the expiry test off by one: the entry that expires at this very
\* second is kept.
cleanup_expired_strict(m, t) ==
    LET expired_keys == {m.cache[i].key : i \in {j \in 1..Len(m.cache) :
                                                 m.cache[j].expires_at < t}}
    IN  [m   |-> [m EXCEPT !.cache = SelectSeq(m.cache,
                                        LAMBDA e : e.key \notin expired_keys)],
         ret |-> Cardinality(expired_keys)]

\* CacheManager.cleanup_expired() at time t.
cleanup_expired_counts_evictions(m, t) ==
    LET expired_keys == {m.cache[i].key : i \in {j \in 1..Len(m.cache) :
                                                 m.cache[j].expires_at <= t}}
    IN  [m   |-> [m EXCEPT !.cache = SelectSeq(m.cache,
                                        LAMBDA e : e.key \notin expired_keys),
                           !.stats.evictions = @ + Cardinality(expired_keys)],
         ret |-> Cardinality(expired_keys)]

cleanup_expired(m, t) ==
    LET expired_keys == {m.cache[i].key : i \in {j \in 1..Len(m.cache) :
                                                 m.cache[j].expires_at <= t}}
    IN  [m   |-> [m EXCEPT !.cache = SelectSeq(m.cache,
                                        LAMBDA e : e.key \notin expired_keys)],
         ret |-> Cardinality(expired_keys)]

\* ------------------------------------------------------------ RateLimiter

\* An is_allowed that still counts the calls that are exactly period old.
is_allowed_inclusive(l, t) ==
    LET kept == SelectSeq(l.calls, LAMBDA call : call >= t - period) IN
    IF Len(kept) < max_calls
    THEN [calls |-> Append(kept, t), ret |-> TRUE]
    ELSE [calls |-> kept, ret |-> FALSE]

\* An is_allowed that records the call whether it allows it or not.
is_allowed_records_denied(l, t) ==
    LET kept == SelectSeq(l.calls, LAMBDA call : call > t - period) IN
    [calls |-> Append(kept, t), ret |-> Len(kept) < max_calls]

\* RateLimiter.is_allowed() at time t: the calls younger than period are
\* kept, and the new one joins them if they are fewer than max_calls.
is_allowed(l, t) ==
    LET kept == SelectSeq(l.calls, LAMBDA call : call > t - period) IN
    IF Len(kept) < max_calls
    THEN [calls |-> Append(kept, t), ret |-> TRUE]
    ELSE [calls |-> kept, ret |-> FALSE]

\* ------------------------------------------------------------- decorators

\* A call of a decorated function: the function, the positional arguments and
\* the keyword arguments as (name, value) pairs in the caller's order.
\*   func(x, y=10) returns x + y      (decorated with ttl=1)
\*   lookup(x)     returns None       (decorated with no ttl)
\*   pair(x)       returns a tuple    (decorated with no ttl)
CallSigs ==
    { [fn |-> "func",   args |-> <<5>>, kwargs |-> <<>>],
      [fn |-> "func",   args |-> <<5>>, kwargs |-> << <<"y", 10>> >>],
      [fn |-> "func",   args |-> <<>>,  kwargs |-> << <<"x", 5>>, <<"y", 10>> >>],
      [fn |-> "func",   args |-> <<>>,  kwargs |-> << <<"y", 10>>, <<"x", 5>> >>],
      [fn |-> "lookup", args |-> <<0>>, kwargs |-> <<>>],
      [fn |-> "pair",   args |-> <<1>>, kwargs |-> <<>>] }

\* Argument values are numbered: a number from 0 on is that int, a negative
\* number names an object whose __repr__ raises.
Unrepresentable(v) == v < 0

\* Calls of one function with different arguments:
\*   double(x) returns x * 2          (decorated with a ttl)
ArgCalls ==
    { [fn |-> "double", args |-> <<v>>, kwargs |-> <<>>] : v \in {5, 10, -1, -2} }

\* Two functions that are both defined as func, in different scopes:
\*   func(x) returns x * 2,  func(x, y=10) returns x + y
\* A function is named by its qualified name.
SameNameFuncs == {"test_cached_different_args.func", "test_cached_with_kwargs.func"}

NameCalls == { [fn |-> f, args |-> <<5>>, kwargs |-> <<>>] : f \in SameNameFuncs }

\* The dashboard functions, both with the signature
\* (periodo: str = "24h", user_id: int = 1).  A periodo is numbered by its
\* length: 24 is "24h" and 7 is "7d".
DashboardFuncs == {"get_dashboard_metrics", "get_dashboard_stats"}

DashboardCalls ==
    { [fn |-> "get_dashboard_metrics", args |-> <<>>,      kwargs |-> <<>>],
      [fn |-> "get_dashboard_metrics", args |-> <<24, 1>>, kwargs |-> <<>>],
      [fn |-> "get_dashboard_metrics", args |-> <<>>,
       kwargs |-> << <<"user_id", 1>>, <<"periodo", 24>> >>],
      [fn |-> "get_dashboard_metrics", args |-> <<7>>,     kwargs |-> <<>>],
      [fn |-> "get_dashboard_metrics", args |-> <<24, 2>>, kwargs |-> <<>>],
      [fn |-> "get_dashboard_stats",   args |-> <<>>,      kwargs |-> <<>>] }

\* The value of the keyword argument name of call c, or dflt without it.
Keyword(c, name, dflt) ==
    IF \E i \in 1..Len(c.kwargs) : c.kwargs[i][1] = name
    THEN c.kwargs[CHOOSE i \in 1..Len(c.kwargs) : c.kwargs[i][1] = name][2]
    ELSE dflt

\* The parameters of a dashboard function as Python binds them for call c:
\* positional arguments first, then keywords, then the defaults.
Bound(c) ==
    [periodo |-> IF Len(c.args) >= 1 THEN c.args[1] ELSE Keyword(c, "periodo", 24),
     user_id |-> IF Len(c.args) >= 2 THEN c.args[2] ELSE Keyword(c, "user_id", 1)]

\* fetch_metrics_from_db(periodo, user_id) and get_metric_stats(user_id,
\* periodo): a mapping that depends on the function and on both parameters.
Fetch(fn, b) ==
    CASE fn = "get_dashboard_stats" -> "stats_24h_user1"
      [] b.periodo = 7               -> "metrics_7d_user1"
      [] b.user_id = 2               -> "metrics_24h_user2"
      [] OTHER                       -> "metrics_24h_user1"

\* func.__name__: the bare name, without the scope the function is defined in.
FuncName(fn) == IF fn \in SameNameFuncs THEN "func" ELSE fn

\* The ttl given to @cached (0: none given).
\* The dashboard's 300s are one unit of time and its 600s two.
CachedTtl(fn) ==
    CASE fn \in {"func", "double"} \cup SameNameFuncs -> 1
      [] fn = "get_dashboard_metrics" -> 1
      [] fn = "get_dashboard_stats" -> 2
      [] OTHER -> 0

\* x * 2 for the argument values of double (an object gives an object).
Twice(x) ==
    CASE x = 5 -> "10" [] x = 10 -> "20" [] x = -1 -> "obj1x2" [] x = -2 -> "obj2x2"

\* The value the wrapped function returns for a call.
Result(c) ==
    CASE c.fn = "func"   -> "15"
      [] c.fn = "lookup" -> None
      [] c.fn = "pair"   -> "tup"
      [] c.fn = "double" -> Twice(c.args[1])
      [] c.fn = "test_cached_different_args.func" -> Twice(c.args[1])
      [] c.fn = "test_cached_with_kwargs.func" -> "15"
      [] c.fn \in DashboardFuncs -> Fetch(c.fn, Bound(c))

\* The order of the parameter names as strings.
NameRank(name) ==
    CASE name = "periodo" -> 0 [] name = "user_id" -> 1
      [] name = "x" -> 2 [] name = "y" -> 3

\* A key derivation that takes the keyword arguments in the caller's order.
unsorted(items) == items

\* sorted(kwargs.items()): the pairs in the order of their names.
RECURSIVE sorted(_)
sorted(items) ==
    IF items = <<>> THEN <<>>
    ELSE LET least == CHOOSE i \in 1..Len(items) :
                          \A j \in 1..Len(items) :
                              NameRank(items[i][1]) <= NameRank(items[j][1])
             rest  == [j \in 1..(Len(items) - 1) |->
                          IF j < least THEN items[j] ELSE items[j + 1]]
         IN  <<items[least]>> \o sorted(rest)

\* str(x): the text of a tuple or a list of pairs.
str(x) == <<"str", x>>

\* hashlib.md5(key_data.encode()).hexdigest()
md5(key_data) == <<"md5", key_data>>

\* str(args) or str(sorted(kwargs.items())) raises: the __repr__ of one of
\* the values does.
str_raises(args, kwargs) ==
    \/ \E i \in 1..Len(args) : Unrepresentable(args[i])
    \/ \E i \in 1..Len(kwargs) : Unrepresentable(kwargs[i][2])

\* A key derivation that leaves the arguments out of the key.
generate_cache_key_by_name(func_name, args, kwargs) == <<"cache", func_name>>

\* _generate_cache_key(func_name, args, kwargs): the hash of the name and of
\* the text of the arguments, and the name alone when that text raises.
generate_cache_key(func_name, args, kwargs) ==
    IF str_raises(args, kwargs)
    THEN <<"cache", func_name>>
    ELSE LET key_data == <<func_name, str(args), str(sorted(kwargs))>>
         IN  <<"cache", func_name, md5(key_data)>>

\* The keys of the calls of the decorated functions.
CachedKeys == {generate_cache_key(FuncName(c.fn), c.args, c.kwargs) : c \in CallSigs}

\* The calls of all the decorated functions, and their keys.
DecoratedCalls == CallSigs \cup ArgCalls \cup NameCalls \cup DashboardCalls

DecoratedKeys ==
    {generate_cache_key(FuncName(c.fn), c.args, c.kwargs) : c \in DecoratedCalls}

\* A wrapper that calls the function before it looks at what get returned.
wrapper_calls_first(m, db, c, t, fail_get, fail_set) ==
    LET cache_key == generate_cache_key(FuncName(c.fn), c.args, c.kwargs)
        result    == Result(c)
        g         == get(m, db, cache_key, t, fail_get)
        s         == set(g.m, cache_key, result, CachedTtl(c.fn), t)
    IN  IF g.ret # None
        THEN [m |-> g.m, db |-> db, key |-> cache_key, path |-> g.path,
              cached_value |-> g.ret, invoked |-> TRUE, ret |-> g.ret]
        ELSE [m |-> s.m,
              db |-> set_redis(g.m, db, cache_key, result, CachedTtl(c.fn), t,
                               fail_set),
              key |-> cache_key, path |-> g.path,
              cached_value |-> g.ret, invoked |-> TRUE, ret |-> result]

\* cached.wrapper(*args, **kwargs) on manager m with mirror content db;
\* fail_get and fail_set say whether the Redis call of get and of set raises.
wrapper(m, db, c, t, fail_get, fail_set) ==
    LET cache_key == generate_cache_key(FuncName(c.fn), c.args, c.kwargs)
        g         == get(m, db, cache_key, t, fail_get)
        result    == Result(c)
        s         == set(g.m, cache_key, result, CachedTtl(c.fn), t)
    IN  IF g.ret # None
        THEN [m |-> g.m, db |-> db, key |-> cache_key, path |-> g.path,
              cached_value |-> g.ret, invoked |-> FALSE, ret |-> g.ret]
        ELSE [m |-> s.m,
              db |-> set_redis(g.m, db, cache_key, result, CachedTtl(c.fn), t,
                               fail_set),
              key |-> cache_key, path |-> g.path,
              cached_value |-> g.ret, invoked |-> TRUE, ret |-> result]

\* A wrapper that writes a placeholder under the key before it calls the
\* function, and leaves it there when the function raises.
wrapper_marks_pending(m, db, c, t, fail_get) ==
    LET cache_key == generate_cache_key(FuncName(c.fn), c.args, c.kwargs)
        g         == get(m, db, cache_key, t, fail_get)
        s         == set(g.m, cache_key, "pending", CachedTtl(c.fn), t)
    IN  IF g.ret # None
        THEN [m |-> g.m, db |-> db, key |-> cache_key, path |-> g.path,
              cached_value |-> g.ret, invoked |-> FALSE, ret |-> g.ret,
              raised |-> FALSE]
        ELSE [m |-> s.m, db |-> db, key |-> cache_key, path |-> g.path,
              cached_value |-> g.ret, invoked |-> TRUE, ret |-> None,
              raised |-> TRUE]

\* cached.wrapper(*args, **kwargs) when func(*args, **kwargs) raises: the
\* exception leaves the wrapper at the call of func, before set.  A hit
\* returns the cached value and does not get as far as func.
wrapper_func_raises(m, db, c, t, fail_get) ==
    LET cache_key == generate_cache_key(FuncName(c.fn), c.args, c.kwargs)
        g         == get(m, db, cache_key, t, fail_get)
    IN  IF g.ret # None
        THEN [m |-> g.m, db |-> db, key |-> cache_key, path |-> g.path,
              cached_value |-> g.ret, invoked |-> FALSE, ret |-> g.ret,
              raised |-> FALSE]
        ELSE [m |-> g.m, db |-> db, key |-> cache_key, path |-> g.path,
              cached_value |-> g.ret, invoked |-> TRUE, ret |-> None,
              raised |-> TRUE]

\* ------------------------------------------------------------ ChatManager

\* The session ids (uuid4 strings) and the roles of a message.
Sessions == {"s1", "s2", "s3"}
Roles == {"user", "assistant"}

\* ttl=3600 of a session's cache entry, as one unit of time.
chat_ttl == 1

\* f"chat_session:{session_id}"
ChatKey(sid) == <<"chat_session", sid>>

\* A session id that active_sessions does not hold, and ChatSession(): a
\* session is known by the roles of its messages.
NoSession == [exists |-> FALSE, messages |-> <<>>]
ChatSession == [exists |-> TRUE, messages |-> <<>>]

\* ChatManager.__init__(cache_manager): with a CacheManager that has no
\* mirror, or with None.
NewChatManager(attached) ==
    [attached |-> attached, cache_manager |-> NewManager(FALSE),
     active_sessions |-> [sid \in Sessions |-> NoSession]]

\* self.cache_manager.set(cache_key, session.to_dict(), ttl=3600), if there
\* is a cache manager: to_dict builds a copy of the session.
chat_cache_set(cm, sid, session, t) ==
    IF cm.attached
    THEN [cm EXCEPT !.cache_manager =
                        set(cm.cache_manager, ChatKey(sid), session, chat_ttl, t).m]
    ELSE cm

\* ChatManager.create_session
create_session(cm, sid, t) ==
    chat_cache_set([cm EXCEPT !.active_sessions[sid] = ChatSession],
                   sid, ChatSession, t)

\* ChatManager.get_session: a cache hit returns ChatSession.from_dict of the
\* cached dict, a new object; otherwise the object of active_sessions, or
\* None.  from_cache tells the two apart.
get_session(cm, sid, t) ==
    LET g == get(cm.cache_manager, <<>>, ChatKey(sid), t, FALSE) IN
    IF cm.attached /\ g.path = "local_hit"
    THEN [cm |-> [cm EXCEPT !.cache_manager = g.m],
          session |-> g.ret, from_cache |-> TRUE]
    ELSE [cm |-> IF cm.attached THEN [cm EXCEPT !.cache_manager = g.m] ELSE cm,
          session |-> cm.active_sessions[sid], from_cache |-> FALSE]

\* ChatManager.add_message: the message is appended to the object that
\* get_session returned.  When that is the copy built from the cache, the
\* object of active_sessions does not get the message.
add_message(cm, sid, role, t) ==
    LET r == get_session(cm, sid, t) IN
    IF ~r.session.exists
    THEN [cm |-> r.cm, ret |-> FALSE]
    ELSE LET session == [r.session EXCEPT !.messages = Append(@, role)]
             stored  == IF r.from_cache THEN r.cm
                        ELSE [r.cm EXCEPT !.active_sessions[sid] = session]
         IN  [cm |-> chat_cache_set(stored, sid, session, t), ret |-> TRUE]

\* ChatManager.delete_session
delete_session(cm, sid) ==
    IF cm.active_sessions[sid].exists
    THEN LET gone == [cm EXCEPT !.active_sessions[sid] = NoSession] IN
         IF cm.attached
         THEN [gone EXCEPT !.cache_manager =
                               invalidate(cm.cache_manager, ChatKey(sid)).m]
         ELSE gone
    ELSE cm

\* The number of messages of a role.
CountRole(messages, role) == Len(SelectSeq(messages, LAMBDA m : m = role))

\* ChatManager.get_session_stats: {} (found is FALSE) without session.
get_session_stats(cm, sid, t) ==
    LET r == get_session(cm, sid, t) IN
    [cm  |-> r.cm,
     ret |-> [found |-> r.session.exists,
              total_messages |-> Len(r.session.messages),
              user_messages |-> CountRole(r.session.messages, "user"),
              assistant_messages |-> CountRole(r.session.messages, "assistant")]]

\* ------------------------------------------------------------------- state

VARIABLES
    now,        \* time.time()
    mgr,        \* mgr[w]: the CacheManager of world w
    redisdb,    \* redisdb[w]: the content of the Redis server of world w
    last,       \* what the last call was and what it returned, per world
    ncalls,     \* the number of calls and clock steps so far
    touched,    \* history: the keys in the order of their last touch, while
                \* only set and get were called and no entry expired
    called,     \* history: the calls of decorated functions made so far
    limiter,    \* a RateLimiter, and what its is_allowed answered so far
    chat,       \* two ChatManagers, one with a CacheManager and one without
    conc        \* a CacheManager that two threads use, and the threads

vars == <<now, mgr, redisdb, last, ncalls, touched, called, limiter, chat, conc>>

\* The value of called in a process whose calls are not recorded.
NoHistory == [valid |-> FALSE, calls |-> {}]

\* The call c joins the recorded calls.
Record(c) ==
    IF called.valid THEN [called EXCEPT !.calls = @ \cup {c}] ELSE called

\* The two ChatManagers.
ChatWorlds == {"cached", "uncached"}

\* Two new ChatManagers; accepted is the history of the messages that
\* add_message accepted, and report what the last get_session_stats said.
NewChat ==
    [cm |-> [w \in ChatWorlds |-> NewChatManager(w = "cached")],
     accepted |-> [w \in ChatWorlds |-> [sid \in Sessions |-> <<>>]],
     deleted |-> {}, op |-> "none", sid |-> "",
     report |-> [w \in ChatWorlds |->
                    get_session_stats(NewChatManager(FALSE), "s1", 0).ret]]

\* The threads that use one CacheManager, and how many operations they
\* start in all.
Threads == {1, 2}
MaxOps == 3

\* A thread that is in no operation of the manager.
Idle == [pc |-> "idle", key |-> NoKey, expires_at |-> 0,
         oldest_key |-> NoKey, expired_keys |-> <<>>, error |-> "none"]

\* A new CacheManager without mirror that two threads share, both idle.
NewShared ==
    [cache |-> <<>>, evictions |-> 0, started |-> 0,
     thread |-> [th \in Threads |-> Idle]]

\* The thread's exception ends its operation.
Raise(th, error) == [th EXCEPT !.pc = "raised", !.error = error]

\* self.cache[key] = {...}: a key the dict holds keeps its position.
setitem(cache, key, expires_at) ==
    LET entry == [key |-> key, value |-> "v1", expires_at |-> expires_at] IN
    IF KeyIn(cache, key)
    THEN [i \in 1..Len(cache) |-> IF cache[i].key = key THEN entry ELSE cache[i]]
    ELSE Append(cache, entry)

\* One statement of CacheManager.get, set or cleanup_expired, run by a thread
\* th on the manager's store c at time t.  No statement takes a lock, so the
\* other thread may run between any two of them.
statement(c, th, t) ==
    CASE th.pc = "get:in" ->
             [c |-> c,
              th |-> IF KeyIn(c.cache, th.key)
                     THEN [th EXCEPT !.pc = "get:entry"] ELSE Idle]
      [] th.pc = "get:entry" ->
             [c |-> c,
              th |-> IF ~KeyIn(c.cache, th.key) THEN Raise(th, "KeyError")
                     ELSE IF EntryOf(c.cache, th.key).expires_at > t
                          THEN [th EXCEPT !.pc = "get:move_to_end"]
                          ELSE [th EXCEPT !.pc = "get:del"]]
      [] th.pc = "get:move_to_end" ->
             IF KeyIn(c.cache, th.key)
             THEN [c |-> [c EXCEPT !.cache = move_to_end(@, th.key)], th |-> Idle]
             ELSE [c |-> c, th |-> Raise(th, "KeyError")]
      [] th.pc = "get:del" ->
             IF KeyIn(c.cache, th.key)
             THEN [c |-> [c EXCEPT !.cache = DelKey(@, th.key)], th |-> Idle]
             ELSE [c |-> c, th |-> Raise(th, "KeyError")]
      [] th.pc = "set:in" ->
             [c |-> c,
              th |-> IF KeyIn(c.cache, th.key)
                     THEN [th EXCEPT !.pc = "set:del"]
                     ELSE [th EXCEPT !.pc = "set:len"]]
      [] th.pc = "set:del" ->
             IF KeyIn(c.cache, th.key)
             THEN [c |-> [c EXCEPT !.cache = DelKey(@, th.key)],
                   th |-> [th EXCEPT !.pc = "set:len"]]
             ELSE [c |-> c, th |-> Raise(th, "KeyError")]
      [] th.pc = "set:len" ->
             [c |-> c,
              th |-> IF Len(c.cache) >= max_size
                     THEN [th EXCEPT !.pc = "set:oldest"]
                     ELSE [th EXCEPT !.pc = "set:store"]]
      [] th.pc = "set:oldest" ->
             [c |-> c,
              th |-> IF Len(c.cache) = 0 THEN Raise(th, "StopIteration")
                     ELSE [th EXCEPT !.pc = "set:evict",
                                     !.oldest_key = c.cache[1].key]]
      [] th.pc = "set:evict" ->
             IF KeyIn(c.cache, th.oldest_key)
             THEN [c |-> [c EXCEPT !.cache = DelKey(@, th.oldest_key),
                                   !.evictions = @ + 1],
                   th |-> [th EXCEPT !.pc = "set:store"]]
             ELSE [c |-> c, th |-> Raise(th, "KeyError")]
      [] th.pc = "set:store" ->
             [c |-> [c EXCEPT !.cache = setitem(@, th.key, th.expires_at)],
              th |-> Idle]
      [] th.pc = "cleanup:scan" ->
             [c |-> c,
              th |-> [th EXCEPT !.pc = "cleanup:del",
                                !.expired_keys =
                                    SelectSeq([i \in 1..Len(c.cache) |-> c.cache[i]],
                                              LAMBDA e : e.expires_at <= t)]]
      [] th.pc = "cleanup:del" ->
             IF Len(th.expired_keys) = 0 THEN [c |-> c, th |-> Idle]
             ELSE IF KeyIn(c.cache, Head(th.expired_keys).key)
                  THEN [c |-> [c EXCEPT !.cache = DelKey(@, Head(th.expired_keys).key)],
                        th |-> [th EXCEPT !.expired_keys = Tail(@)]]
                  ELSE [c |-> c, th |-> Raise(th, "KeyError")]

\* RateLimiter.__init__: no call yet.  asked is the history of is_allowed:
\* the time and the answer of every call.
NewLimiter == [calls |-> <<>>, asked |-> <<>>]

\* The value of touched once a call other than set and get was made or an
\* entry expired.
Void == [valid |-> FALSE, order |-> <<>>]

\* key becomes the most recently touched one.
Touch(key) ==
    IF ~touched.valid THEN Void
    ELSE [touched EXCEPT
             !.order = Append(SelectSeq(touched.order, LAMBDA k : k # key), key)]

\* Some entry of the manager without mirror has expired at time t.
SomeExpired(t) ==
    \E i \in 1..Len(mgr["plain"].cache) : mgr["plain"].cache[i].expires_at <= t

\* _init_redis: redis_client stays None without REDIS_URL.
HasRedis(w) == w # "plain"

\* Whether a call of world w's Redis client raises; coin is the flaky
\* server's behaviour at this call.
Fails(w, coin) == w = "down" \/ (w = "flaky" /\ coin)

NoCall == [op |-> "none", key |-> NoKey, repeat |-> FALSE, boom |-> FALSE,
           call   |-> [fn |-> "", args |-> <<>>, kwargs |-> <<>>],
           invoked |-> [w \in Worlds |-> FALSE],
           cached_value |-> [w \in Worlds |-> None],
           ret    |-> [w \in Worlds |-> None],
           path   |-> [w \in Worlds |-> ""],
           raised |-> [w \in Worlds |-> FALSE],
           peak   |-> [w \in Worlds |-> 0],
           removed |-> [w \in Worlds |-> 0],
           report |-> [w \in Worlds |-> get_stats(NewManager(FALSE), 0).ret]]

\* The call op(key) as last records it; repeat says that the call before it
\* was the same call.
Call(op, key) ==
    [NoCall EXCEPT !.op = op, !.key = key,
                   !.repeat = (last.op = op /\ last.key = key)]

\* The largest size the OrderedDict had during a call.
MaxLen(steps) ==
    CHOOSE n \in {Len(steps[i]) : i \in 1..Len(steps)} :
        \A i \in 1..Len(steps) : Len(steps[i]) <= n

\* Every step is counted; the exploration stops after MaxCalls of them.
Count == ncalls < MaxCalls /\ ncalls' = ncalls + 1

Init ==
    /\ now = 0
    /\ mgr = [w \in Worlds |-> NewManager(HasRedis(w))]
    /\ redisdb = [w \in Worlds |-> [k \in Keys |-> RedisNil]]
    /\ last = NoCall
    /\ ncalls = 0
    /\ touched = [valid |-> TRUE, order |-> <<>>]
    /\ called = NoHistory
    /\ limiter = NewLimiter
    /\ chat = NewChat
    /\ conc = NewShared

\* One call of get(key) on every manager.
Get(key, coin) ==
    /\ Count
    /\ LET r == [w \in Worlds |->
                    get(mgr[w], redisdb[w], key, now, Fails(w, coin))] IN
        /\ mgr' = [w \in Worlds |-> r[w].m]
        /\ last' = [Call("get", key) EXCEPT
                       !.ret = [w \in Worlds |-> r[w].ret],
                       !.path = [w \in Worlds |-> r[w].path]]
        /\ touched' = CASE r["plain"].path = "local_hit" -> Touch(key)
                         [] r["plain"].path = "expired" -> Void
                         [] OTHER -> touched
    /\ UNCHANGED <<now, redisdb, called, limiter, chat, conc>>

\* One call of set(key, value, ttl) on every manager.
Set(key, value, ttl, coin) ==
    /\ Count
    /\ LET r == [w \in Worlds |-> set(mgr[w], key, value, ttl, now)] IN
        /\ mgr' = [w \in Worlds |-> r[w].m]
        /\ last' = [Call("set", key) EXCEPT
                       !.raised = [w \in Worlds |-> r[w].raised],
                       !.peak = [w \in Worlds |-> MaxLen(r[w].steps)]]
    /\ redisdb' = [w \in Worlds |->
                      set_redis(mgr[w], redisdb[w], key, value, ttl, now,
                                Fails(w, coin))]
    /\ touched' = Touch(key)
    /\ UNCHANGED <<now, called, limiter, chat, conc>>

\* One call of invalidate(key) on every manager.
Invalidate(key, coin) ==
    /\ Count
    /\ LET r == [w \in Worlds |-> invalidate(mgr[w], key)] IN
        /\ mgr' = [w \in Worlds |-> r[w].m]
        /\ last' = [Call("invalidate", key) EXCEPT
                       !.raised = [w \in Worlds |-> r[w].raised]]
    /\ redisdb' = [w \in Worlds |->
                      invalidate_redis(mgr[w], redisdb[w], key, Fails(w, coin))]
    /\ touched' = Void
    /\ UNCHANGED <<now, called, limiter, chat, conc>>

\* One call of clear() on every manager.
Clear(coin) ==
    /\ Count
    /\ mgr' = [w \in Worlds |-> clear(mgr[w])]
    /\ redisdb' = [w \in Worlds |->
                      clear_redis(mgr[w], redisdb[w], Fails(w, coin))]
    /\ last' = Call("clear", NoKey)
    /\ touched' = Void
    /\ UNCHANGED <<now, called, limiter, chat, conc>>

\* One call of cleanup_expired() on every manager.
CleanupExpired ==
    /\ Count
    /\ LET r == [w \in Worlds |-> cleanup_expired(mgr[w], now)] IN
        /\ mgr' = [w \in Worlds |-> r[w].m]
        /\ last' = [Call("cleanup_expired", NoKey) EXCEPT
                       !.removed = [w \in Worlds |-> r[w].ret]]
    /\ touched' = Void
    /\ UNCHANGED <<now, redisdb, called, limiter, chat, conc>>

\* One call of get_stats() on every manager.
GetStats ==
    /\ Count
    /\ LET r == [w \in Worlds |-> get_stats(mgr[w], now)] IN
        last' = [Call("get_stats", NoKey) EXCEPT
                    !.report = [w \in Worlds |-> r[w].ret],
                    !.raised = [w \in Worlds |-> r[w].raised]]
    /\ UNCHANGED <<now, mgr, redisdb, touched, called, limiter, chat, conc>>

\* A second passes.
Tick ==
    /\ Count
    /\ now < MaxTime
    /\ now' = now + 1
    /\ redisdb' = [w \in Worlds |-> redis_expire(redisdb[w], now + 1)]
    /\ last' = Call("tick", NoKey)
    /\ touched' = IF SomeExpired(now + 1) THEN Void ELSE touched
    /\ UNCHANGED <<mgr, called, limiter, chat, conc>>

\* Another client of the shared Redis service writes its own payload.
ForeignWrite(key) ==
    /\ Count
    /\ redisdb' = [w \in Worlds |->
                      IF HasRedis(w) THEN [redisdb[w] EXCEPT ![key] = RedisForeign]
                      ELSE redisdb[w]]
    /\ last' = Call("foreign", key)
    /\ UNCHANGED <<now, mgr, touched, called, limiter, chat, conc>>

Next ==
    \/ \E key \in Keys, coin \in BOOLEAN : Get(key, coin)
    \/ \E key \in Keys, a \in SetArgs, coin \in BOOLEAN : Set(key, a[1], a[2], coin)
    \/ \E key \in Keys, coin \in BOOLEAN : Invalidate(key, coin)
    \/ \E coin \in BOOLEAN : Clear(coin)
    \/ CleanupExpired
    \/ Tick

\* The managers alone use their Redis servers.
Spec == Init /\ [][Next]_vars

\* The initial state of a process that uses the manager through @cached.
InitCached ==
    /\ now = 0
    /\ mgr = [w \in Worlds |-> NewManager(HasRedis(w))]
    /\ redisdb = [w \in Worlds |-> [k \in CachedKeys |-> RedisNil]]
    /\ last = NoCall
    /\ ncalls = 0
    /\ touched = Void
    /\ called = NoHistory
    /\ limiter = NewLimiter
    /\ chat = NewChat
    /\ conc = NewShared

\* One call c of a decorated function, in every world.
CachedCall(c, coin_get, coin_set) ==
    /\ Count
    /\ LET r == [w \in Worlds |->
                    wrapper(mgr[w], redisdb[w], c, now,
                            Fails(w, coin_get), Fails(w, coin_set))] IN
        /\ mgr' = [w \in Worlds |-> r[w].m]
        /\ redisdb' = [w \in Worlds |-> r[w].db]
        /\ last' = [Call("cached", r["plain"].key) EXCEPT
                       !.call = c,
                       !.invoked = [w \in Worlds |-> r[w].invoked],
                       !.cached_value = [w \in Worlds |-> r[w].cached_value],
                       !.ret = [w \in Worlds |-> r[w].ret],
                       !.path = [w \in Worlds |-> r[w].path]]
    /\ called' = Record(c)
    /\ UNCHANGED <<now, touched, limiter, chat, conc>>

\* One call c of a decorated function whose wrapped function raises when it
\* is invoked (the data source fails), in every world.
CachedCallRaises(c, coin_get) ==
    /\ Count
    /\ LET r == [w \in Worlds |->
                    wrapper_func_raises(mgr[w], redisdb[w], c, now,
                                        Fails(w, coin_get))] IN
        /\ mgr' = [w \in Worlds |-> r[w].m]
        /\ redisdb' = [w \in Worlds |-> r[w].db]
        /\ last' = [Call("cached", r["plain"].key) EXCEPT
                       !.call = c,
                       !.boom = TRUE,
                       !.invoked = [w \in Worlds |-> r[w].invoked],
                       !.cached_value = [w \in Worlds |-> r[w].cached_value],
                       !.ret = [w \in Worlds |-> r[w].ret],
                       !.path = [w \in Worlds |-> r[w].path],
                       !.raised = [w \in Worlds |-> r[w].raised]]
    /\ called' = Record(c)
    /\ UNCHANGED <<now, touched, limiter, chat, conc>>

\* wrapper.invalidate_cache(*args, **kwargs) with the arguments of call c.
InvalidateCache(c, coin) ==
    Invalidate(generate_cache_key(FuncName(c.fn), c.args, c.kwargs), coin)

\* wrapper.clear_all()
ClearAll(coin) == Clear(coin)

NextCached ==
    \/ \E c \in CallSigs, coin_get \in BOOLEAN, coin_set \in BOOLEAN :
           CachedCall(c, coin_get, coin_set)
    \/ \E c \in CallSigs, coin \in BOOLEAN : InvalidateCache(c, coin)
    \/ \E coin \in BOOLEAN : ClearAll(coin)
    \/ Tick

\* The decorated functions are called, invalidated and cleared.
SpecCached == InitCached /\ [][NextCached]_vars

\* The initial state of a process whose calls of decorated functions are
\* recorded.
InitDecorated ==
    /\ now = 0
    /\ mgr = [w \in Worlds |-> NewManager(HasRedis(w))]
    /\ redisdb = [w \in Worlds |-> [k \in DecoratedKeys |-> RedisNil]]
    /\ last = NoCall
    /\ ncalls = 0
    /\ touched = Void
    /\ called = [valid |-> TRUE, calls |-> {}]
    /\ limiter = NewLimiter
    /\ chat = NewChat
    /\ conc = NewShared

NextArgs ==
    \/ \E c \in ArgCalls, coin_get \in BOOLEAN, coin_set \in BOOLEAN :
           CachedCall(c, coin_get, coin_set)
    \/ \E c \in ArgCalls, coin \in BOOLEAN : InvalidateCache(c, coin)
    \/ \E coin \in BOOLEAN : ClearAll(coin)
    \/ Tick

\* One decorated function is called with different arguments.
SpecArgs == InitDecorated /\ [][NextArgs]_vars

NextNames ==
    \/ \E c \in NameCalls, coin_get \in BOOLEAN, coin_set \in BOOLEAN :
           CachedCall(c, coin_get, coin_set)
    \/ \E c \in NameCalls, coin \in BOOLEAN : InvalidateCache(c, coin)
    \/ \E coin \in BOOLEAN : ClearAll(coin)
    \/ Tick

\* Two decorated functions with the same bare name are called.
SpecNames == InitDecorated /\ [][NextNames]_vars

\* The calls of a function whose data source may fail.
RaisingCalls == {c \in ArgCalls : ~str_raises(c.args, c.kwargs)}

NextRaising ==
    \/ \E c \in RaisingCalls, coin_get \in BOOLEAN, coin_set \in BOOLEAN :
           CachedCall(c, coin_get, coin_set)
    \/ \E c \in RaisingCalls, coin_get \in BOOLEAN : CachedCallRaises(c, coin_get)
    \/ \E c \in RaisingCalls, coin \in BOOLEAN : InvalidateCache(c, coin)
    \/ \E coin \in BOOLEAN : ClearAll(coin)
    \/ Tick

\* A decorated function is called while its wrapped function raises at times.
SpecRaising == InitDecorated /\ [][NextRaising]_vars

NextDashboard ==
    \/ \E c \in DashboardCalls, coin_get \in BOOLEAN, coin_set \in BOOLEAN :
           CachedCall(c, coin_get, coin_set)
    \/ \E c \in DashboardCalls, coin \in BOOLEAN : InvalidateCache(c, coin)
    \/ \E coin \in BOOLEAN : ClearAll(coin)
    \/ Tick

\* The dashboard calls its two cached functions.
SpecDashboard == InitDecorated /\ [][NextDashboard]_vars

NextStats == Next \/ GetStats

\* The managers are used and asked for their statistics.
SpecStats == Init /\ [][NextStats]_vars

\* The counters of a manager that has answered hits + misses gets.
StatsAfter(hits, misses) ==
    [hits |-> hits, misses |-> misses, evictions |-> 0,
     total_requests |-> hits + misses]

\* The stores of a manager that was set no key, one key, or two at time 0.
Stores ==
    { SubSeq(<< [key |-> <<"k1">>, value |-> "v1", expires_at |-> default_ttl],
                [key |-> <<"k2">>, value |-> "v1", expires_at |-> default_ttl] >>,
             1, n) : n \in 0..max_size }

\* The managers after any number of hits and misses up to MaxHits and
\* MaxMisses.
InitRates ==
    /\ now = 0
    /\ \E hits \in 0..MaxHits, misses \in 0..MaxMisses, store \in Stores :
           mgr = [w \in Worlds |->
                     [NewManager(HasRedis(w)) EXCEPT
                         !.stats = StatsAfter(hits, misses), !.cache = store]]
    /\ redisdb = [w \in Worlds |-> [k \in Keys |-> RedisNil]]
    /\ last = NoCall
    /\ ncalls = 0
    /\ touched = Void
    /\ called = NoHistory
    /\ limiter = NewLimiter
    /\ chat = NewChat
    /\ conc = NewShared

NextRates == GetStats

\* get_stats is called on managers with any counters.
SpecRates == InitRates /\ [][NextRates]_vars

\* One call of is_allowed() on the limiter.
IsAllowed ==
    /\ Len(limiter.asked) < MaxAsked
    /\ LET r == is_allowed(limiter, now) IN
        limiter' = [calls |-> r.calls,
                    asked |-> Append(limiter.asked, [at |-> now, ok |-> r.ret])]
    /\ UNCHANGED <<now, mgr, redisdb, last, ncalls, touched, called, chat, conc>>

\* time.sleep(1) between two calls of the limiter.
Sleep ==
    /\ now < MaxClock
    /\ now' = now + 1
    /\ UNCHANGED <<mgr, redisdb, last, ncalls, touched, called, limiter, chat, conc>>

NextLimiter == IsAllowed \/ Sleep

\* A RateLimiter is asked again and again while time passes.
SpecLimiter == Init /\ [][NextLimiter]_vars

\* create_session on both ChatManagers; uuid4 gives an id never used before.
CreateSession(sid) ==
    /\ Count
    /\ \A w \in ChatWorlds : ~chat.cm[w].active_sessions[sid].exists
    /\ sid \notin chat.deleted
    /\ chat' = [chat EXCEPT
                   !.cm = [w \in ChatWorlds |-> create_session(chat.cm[w], sid, now)],
                   !.op = "create_session", !.sid = sid]
    /\ UNCHANGED <<now, mgr, redisdb, last, touched, called, limiter, conc>>

\* add_message(sid, role, content) on both ChatManagers.
AddMessage(sid, role) ==
    /\ Count
    /\ LET r == [w \in ChatWorlds |-> add_message(chat.cm[w], sid, role, now)] IN
        chat' = [chat EXCEPT
                   !.cm = [w \in ChatWorlds |-> r[w].cm],
                   !.accepted = [w \in ChatWorlds |->
                                   IF r[w].ret
                                   THEN [chat.accepted[w] EXCEPT ![sid] = Append(@, role)]
                                   ELSE chat.accepted[w]],
                   !.op = "add_message", !.sid = sid]
    /\ UNCHANGED <<now, mgr, redisdb, last, touched, called, limiter, conc>>

\* get_session_stats(sid) on both ChatManagers.
GetSessionStats(sid) ==
    /\ Count
    /\ LET r == [w \in ChatWorlds |-> get_session_stats(chat.cm[w], sid, now)] IN
        chat' = [chat EXCEPT
                   !.cm = [w \in ChatWorlds |-> r[w].cm],
                   !.report = [w \in ChatWorlds |-> r[w].ret],
                   !.op = "get_session_stats", !.sid = sid]
    /\ UNCHANGED <<now, mgr, redisdb, last, touched, called, limiter, conc>>

\* delete_session(sid) on both ChatManagers.
DeleteSession(sid) ==
    /\ Count
    /\ chat' = [chat EXCEPT
                   !.cm = [w \in ChatWorlds |-> delete_session(chat.cm[w], sid)],
                   !.deleted = IF chat.cm["cached"].active_sessions[sid].exists
                               THEN @ \cup {sid} ELSE @,
                   !.op = "delete_session", !.sid = sid]
    /\ UNCHANGED <<now, mgr, redisdb, last, touched, called, limiter, conc>>

\* clear_cache(): another user of the cache manager clears it.
ClearCache ==
    /\ Count
    /\ chat' = [chat EXCEPT
                   !.cm["cached"].cache_manager = clear(@),
                   !.op = "clear_cache", !.sid = ""]
    /\ UNCHANGED <<now, mgr, redisdb, last, touched, called, limiter, conc>>

NextChat ==
    \/ \E sid \in Sessions : CreateSession(sid)
    \/ \E sid \in Sessions, role \in Roles : AddMessage(sid, role)
    \/ \E sid \in Sessions : GetSessionStats(sid)
    \/ \E sid \in Sessions : DeleteSession(sid)
    \/ ClearCache
    \/ Tick

\* Chat sessions are created, written, read and deleted while time passes.
SpecChat == Init /\ [][NextChat]_vars

\* A thread calls get(key), set(key, value, ttl) or cleanup_expired() on the
\* shared manager.
Begin(th, pc, key, ttl) ==
    /\ conc.thread[th].pc = "idle"
    /\ conc.started < MaxOps
    /\ conc' = [conc EXCEPT !.started = @ + 1,
                            !.thread[th] = [Idle EXCEPT !.pc = pc, !.key = key,
                                                        !.expires_at = now + ttl]]
    /\ UNCHANGED <<now, mgr, redisdb, last, ncalls, touched, called, limiter, chat>>

BeginGet(th, key) == Begin(th, "get:in", key, 0)

BeginSet(th, key, ttl) == Begin(th, "set:in", key, ttl)

BeginCleanup(th) == Begin(th, "cleanup:scan", NoKey, 0)

\* A thread in an operation runs its next statement.
Statement(th) ==
    /\ conc.thread[th].pc \notin {"idle", "raised"}
    /\ LET r == statement(conc, conc.thread[th], now) IN
        conc' = [r.c EXCEPT !.thread[th] = r.th]
    /\ UNCHANGED <<now, mgr, redisdb, last, ncalls, touched, called, limiter, chat>>

NextConcurrent ==
    \/ \E th \in Threads, key \in Keys : BeginGet(th, key)
    \/ \E th \in Threads, key \in Keys, ttl \in 1..default_ttl : BeginSet(th, key, ttl)
    \/ \E th \in Threads : BeginCleanup(th)
    \/ \E th \in Threads : Statement(th)
    \/ Tick

\* Two threads use one manager, with nothing but the interpreter deciding
\* when one of them runs.
SpecConcurrent == Init /\ [][NextConcurrent]_vars

\* CacheManager(max_size=n) with an n that leaves room for no entry.
NoRoom == {-1, 0}

InitNoRoom ==
    /\ now = 0
    /\ \E size \in NoRoom :
           mgr = [w \in Worlds |->
                     [NewManager(HasRedis(w)) EXCEPT !.max_size = size]]
    /\ redisdb = [w \in Worlds |-> [k \in Keys |-> RedisNil]]
    /\ last = NoCall
    /\ ncalls = 0
    /\ touched = [valid |-> TRUE, order |-> <<>>]
    /\ called = NoHistory
    /\ limiter = NewLimiter
    /\ chat = NewChat
    /\ conc = NewShared

\* The operations of the manager on a manager without room.
SpecNoRoom == InitNoRoom /\ [][Next]_vars

NextShared == Next \/ \E key \in Keys : ForeignWrite(key)

\* The Redis service is shared with other clients.
SpecShared == Init /\ [][NextShared]_vars

\* ------------------------------------------------------------------ claims

Stats(w) == mgr[w].stats

\* C1: the local store never holds more than max_size entries, neither after
\* a call nor at any point during a set: the eviction precedes the insertion.
C1_NeverOverCapacity ==
    \A w \in Worlds :
        /\ Len(mgr[w].cache) <= max_size
        /\ last.peak[w] <= max_size

\* A set of a new key found the store full and evicted.
C1_Witness ==
    /\ last.op = "set"
    /\ ncalls = max_size + 1
    /\ Stats("plain").evictions = 1
    /\ Len(mgr["plain"].cache) = max_size

\* The last max_size keys of the touch order.
MostRecentlyTouched ==
    {touched.order[i] :
        i \in (Len(touched.order) - max_size + 1)..Len(touched.order)}

\* C2: without mirror and with no entry expiring, once more than max_size
\* distinct keys were set, the store holds exactly the max_size keys that were
\* touched (set, or read with a hit) most recently.
C2_LruKeepsMostRecent ==
    (touched.valid /\ Len(touched.order) > max_size)
        => KeysOf(mgr["plain"].cache) = MostRecentlyTouched

\* A hit on k1 saved it from the eviction that the set of k3 caused.
C2_Witness ==
    /\ touched.valid
    /\ touched.order = << <<"k2">>, <<"k1">>, <<"k3">> >>
    /\ Stats("plain").hits = 1
    /\ KeysOf(mgr["plain"].cache) = {<<"k1">>, <<"k3">>}

\* What a get answered from the local store of world w does with key, given
\* the store before the call: the entry's value and a hit while now is before
\* expires_at, absent and a miss from expires_at on.
LocalAnswer(w, key) ==
    IF KeyIn(mgr[w].cache, key) /\ now < EntryOf(mgr[w].cache, key).expires_at
    THEN /\ last'.ret[w] = EntryOf(mgr[w].cache, key).value
         /\ mgr'[w].stats.hits = mgr[w].stats.hits + 1
         /\ mgr'[w].stats.misses = mgr[w].stats.misses
    ELSE /\ last'.ret[w] = None
         /\ mgr'[w].stats.hits = mgr[w].stats.hits
         /\ mgr'[w].stats.misses = mgr[w].stats.misses + 1

EffectiveTtl(ttl) == IF ttl = 0 THEN default_ttl ELSE ttl

C4_ExactlyOneCounter ==
    [][ \A w \in Worlds :
          IF last'.op = "get"
          THEN /\ mgr'[w].stats.total_requests = mgr[w].stats.total_requests + 1
               /\ \/ /\ mgr'[w].stats.hits = mgr[w].stats.hits + 1
                     /\ mgr'[w].stats.misses = mgr[w].stats.misses
                  \/ /\ mgr'[w].stats.hits = mgr[w].stats.hits
                     /\ mgr'[w].stats.misses = mgr[w].stats.misses + 1
          ELSE /\ mgr'[w].stats.total_requests = mgr[w].stats.total_requests
               /\ mgr'[w].stats.hits = mgr[w].stats.hits
               /\ mgr'[w].stats.misses = mgr[w].stats.misses
      ]_vars

\* C7: a manager with a reachable mirror and one without return the same
\* value-or-absent from every get.
C7_MirrorNeverChangesResult ==
    last.op = "get" => last.ret["reachable"] = last.ret["plain"]

\* C7 as amended: whenever the manager without mirror returns a value, the
\* manager with a reachable mirror returns that value as JSON carries it (a
\* tuple comes back as a list); it may return a value where the other returns
\* absent.
C7_MirrorReturnsJsonImage ==
    (last.op = "get" /\ last.ret["plain"] # None)
        => last.ret["reachable"] = json_loads(json_dumps(last.ret["plain"]))

\* Both managers answered a get of a stored tuple, one of them from the mirror.
C7_Witness ==
    /\ last.op = "get"
    /\ last.ret["plain"] = "tup"
    /\ last.path["reachable"] = "redis_hit"

\* C8: no failure of the mirror leaves a call, and the manager whose mirror
\* fails on every call has the store, the counters and the results of the
\* manager without mirror.
C8_FailingMirrorIsNoMirror ==
    /\ mgr["down"].cache = mgr["plain"].cache
    /\ mgr["down"].stats = mgr["plain"].stats
    /\ last.ret["down"] = last.ret["plain"]
    /\ last.raised["down"] = last.raised["plain"]
    /\ redisdb["down"] = redisdb["plain"]

\* A get whose mirror raised fell through to the local store and hit the
\* entry that a set whose mirror raised had written.
C8_Witness ==
    /\ last.op = "get"
    /\ last.path["down"] = "local_hit"
    /\ last.ret["down"] \in Values

\* C9: a get that follows invalidate(key) returns absent and counts a miss, on
\* the manager without mirror and on the managers with one.
C9_AbsentAfterInvalidate ==
    [][ \A key \in Keys :
          (/\ last.op = "invalidate" /\ last.key = key
           /\ last'.op = "get" /\ last'.key = key)
          => \A w \in Worlds :
                /\ last'.ret[w] = None
                /\ mgr'[w].stats.misses = mgr[w].stats.misses + 1
                /\ mgr'[w].stats.hits = mgr[w].stats.hits
      ]_vars

\* C10: a second invalidate(key) raises nothing and leaves every store and
\* every counter as the first left them, without key.
C10_InvalidateIdempotent ==
    [][ \A key \in Keys :
          (/\ last.op = "invalidate" /\ last.key = key
           /\ last'.op = "invalidate" /\ last'.key = key)
          => \A w \in Worlds :
                /\ mgr'[w] = mgr[w]
                /\ ~KeyIn(mgr'[w].cache, key)
                /\ ~last.raised[w]
                /\ ~last'.raised[w]
      ]_vars

\* invalidate was called twice in a row on a key while the store held another.
C10_Witness ==
    /\ last.op = "invalidate"
    /\ last.repeat
    /\ Len(mgr["plain"].cache) >= 1

\* The value as it comes back from the mirror.
JsonImage(value) == json_loads(json_dumps(value))

\* Two calls pass identical arguments: the same function, the same positional
\* arguments and the same keyword arguments, in any order.
SameArguments(c1, c2) ==
    /\ c1.fn = c2.fn
    /\ c1.args = c2.args
    /\ {c1.kwargs[i] : i \in 1..Len(c1.kwargs)}
           = {c2.kwargs[i] : i \in 1..Len(c2.kwargs)}

\* The step is the call c of a decorated function right after a call with
\* identical arguments.
SecondCall(c) ==
    /\ last.op = "cached" /\ SameArguments(last.call, c)
    /\ last'.op = "cached" /\ last'.call = c

SteadyWorlds == {"plain", "reachable", "down"}

CountedHit(w) == last.path[w] \in {"local_hit", "redis_hit"}

\* C6: in a call of a @cached function for which get counted a hit, the
\* wrapped function is not invoked and the cached value is returned.
C6_HitNeverInvokes ==
    last.op = "cached" =>
        \A w \in Worlds :
            CountedHit(w) =>
                ~last.invoked[w] /\ last.ret[w] = last.cached_value[w]

\* C6 as amended: so it is when the hit returned a value other than None.
C6_HitWithValueNeverInvokes ==
    last.op = "cached" =>
        \A w \in Worlds :
            (CountedHit(w) /\ last.cached_value[w] # None) =>
                ~last.invoked[w] /\ last.ret[w] = last.cached_value[w]

\* A call was answered from the local store without invoking the function.
C6_Witness ==
    /\ last.op = "cached"
    /\ last.path["plain"] = "local_hit"
    /\ last.cached_value["plain"] = "15"
    /\ ~last.invoked["plain"]

\* The entries of a store that a get at time t treats as present.
Unexpired(cache, t) == SelectSeq(cache, LAMBDA e : e.expires_at > t)

\* C11: cleanup_expired removes exactly the entries whose expires_at has passed
\* (expires_at <= now, the entries a get treats as absent), keeps every other
\* entry in its place, returns the number of entries it removed, raises nothing
\* and leaves the counters alone, in whatever state it is called.
C11_CleanupRemovesExpired ==
    [][ last'.op = "cleanup_expired" =>
          \A w \in Worlds :
              /\ mgr'[w].cache = Unexpired(mgr[w].cache, now)
              /\ last'.removed[w] = Len(mgr[w].cache) - Len(mgr'[w].cache)
              /\ ~last'.raised[w]
              /\ mgr'[w].stats = mgr[w].stats
      ]_vars

\* A 1s entry and a longer one were set; a second later cleanup_expired
\* returned 1 and the store holds the longer one alone.
C11_Witness ==
    /\ last.op = "cleanup_expired"
    /\ now = 1
    /\ last.removed["plain"] = 1
    /\ Len(mgr["plain"].cache) = 1
    /\ mgr["plain"].cache[1].expires_at > now

\* The step is the call c of a decorated function.
IsCall(c) == last'.op = "cached" /\ last'.call = c

\* C12: calls of one @cached function with different arguments use different
\* entries: a call with arguments that were never passed before invokes the
\* wrapped function, and every call returns the value of its own arguments.
C12_DifferentArgsDifferentEntries ==
    [][ \A c \in ArgCalls :
          IsCall(c) =>
              \A w \in Worlds :
                  /\ c \notin called.calls => last'.invoked[w]
                  /\ last'.ret[w] = Result(c)
      ]_vars

\* C12 as amended: so it is for the arguments whose text str() can build; the
\* arguments whose text raises all share the entry of the bare name.
C12_RepresentableArgsDifferentEntries ==
    [][ \A c \in ArgCalls :
          (IsCall(c) /\ ~str_raises(c.args, c.kwargs)) =>
              \A w \in Worlds :
                  /\ c \notin called.calls => last'.invoked[w]
                  /\ last'.ret[w] = Result(c)
      ]_vars

\* double(10) was called for the first time after double(5): the function was
\* invoked, and the store holds one entry for each.
C12_Witness ==
    /\ last.op = "cached"
    /\ last.call.args = <<10>>
    /\ last.invoked["plain"]
    /\ last.ret["plain"] = "20"
    /\ [fn |-> "double", args |-> <<5>>, kwargs |-> <<>>] \in called.calls
    /\ Len(mgr["plain"].cache) = 2

\* C13: two distinct @cached functions called with equal arguments never
\* share an entry: every call returns a value that its own function computed,
\* also when the two functions have the same bare name.
C13_FunctionsNeverShareEntries ==
    last.op = "cached" =>
        \A w \in Worlds : last.ret[w] = Result(last.call)

\* The key that the wrapper derives for the call c.
KeyOf(c) == generate_cache_key(FuncName(c.fn), c.args, c.kwargs)

\* C14: f.invalidate_cache(*args, **kwargs) removes the entry of f and those
\* arguments and leaves every other entry as it was, and the call
\* f(*args, **kwargs) that follows it invokes the wrapped function again.
C14_InvalidateCacheRemovesOneEntry ==
    [][ \A c \in CallSigs :
          /\ (last'.op = "invalidate" /\ last'.key = KeyOf(c)) =>
                \A w \in Worlds :
                    /\ mgr'[w].cache = DelKey(mgr[w].cache, KeyOf(c))
                    /\ \A k \in CachedKeys \ {KeyOf(c)} :
                           redisdb'[w][k] = redisdb[w][k]
          /\ (last.op = "invalidate" /\ last.key = KeyOf(c) /\ IsCall(c)) =>
                \A w \in Worlds : last'.invoked[w]
      ]_vars

\* C15: clear() and clear_all() empty the whole manager: the local store holds
\* no entry afterwards, and the call of any decorated function that follows is
\* a miss that invokes its wrapped function.
C15_ClearEmptiesWholeManager ==
    [][ /\ last'.op = "clear" => \A w \in Worlds : mgr'[w].cache = <<>>
        /\ \A c \in CallSigs :
              (last.op = "clear" /\ IsCall(c)) =>
                  \A w \in Worlds : last'.invoked[w] /\ last'.path[w] = "miss"
      ]_vars

\* The call c whose wrapped function raises leaves world w as the claim says:
\* on a miss the exception reaches the caller and neither the local store nor
\* the mirror holds a new entry for the key; a hit returns the cached value.
RaiseLeavesNoEntry(c, w) ==
    IF last'.path[w] \in {"local_hit", "redis_hit"}
    THEN ~last'.raised[w] /\ ~last'.invoked[w]
    ELSE /\ last'.raised[w] /\ last'.invoked[w]
         /\ ~KeyIn(mgr'[w].cache, KeyOf(c))
         /\ redisdb'[w] = redisdb[w]

\* The step is a call c right after the same call raised in world w.
CallAfterRaise(c, w) ==
    /\ last.op = "cached" /\ last.call = c /\ last.raised[w]
    /\ IsCall(c)

SameDashboardKey(c1, c2) == c1.fn = c2.fn /\ Bound(c1) = Bound(c2)

\* C17: the dashboard caches are keyed by (periodo, user_id): calls with equal
\* periodo and user_id derive one key however the arguments are passed, calls
\* with a different periodo or user_id derive different keys, and the second
\* of two calls in a row with equal periodo and user_id causes no fetch.
C17_KeyedByPeriodAndUser ==
    [][ \A c1 \in DashboardCalls, c2 \in DashboardCalls :
          (last.op = "cached" /\ last.call = c1 /\ IsCall(c2)) =>
              IF SameDashboardKey(c1, c2)
              THEN last'.key = last.key /\ ~last'.invoked["plain"]
              ELSE last'.key # last.key
      ]_vars

\* C18: hits, misses, evictions and total_requests never decrease and no call
\* resets them: hits, misses and total_requests change in get alone, evictions
\* in set alone, and invalidate, clear, cleanup_expired and get_stats change
\* none of them.
C18_CountersOnlyGrow ==
    [][ \A w \in Worlds :
          /\ mgr'[w].stats.hits >= mgr[w].stats.hits
          /\ mgr'[w].stats.misses >= mgr[w].stats.misses
          /\ mgr'[w].stats.evictions >= mgr[w].stats.evictions
          /\ mgr'[w].stats.total_requests >= mgr[w].stats.total_requests
          /\ last'.op # "get" =>
                /\ mgr'[w].stats.hits = mgr[w].stats.hits
                /\ mgr'[w].stats.misses = mgr[w].stats.misses
                /\ mgr'[w].stats.total_requests = mgr[w].stats.total_requests
          /\ last'.op # "set" =>
                mgr'[w].stats.evictions = mgr[w].stats.evictions
      ]_vars

\* clear() emptied a store whose manager had counted a hit and a miss, and
\* the counters are as they were.
C18_Witness ==
    /\ last.op = "clear"
    /\ mgr["plain"].cache = <<>>
    /\ Stats("plain") = [hits |-> 1, misses |-> 1, evictions |-> 0,
                         total_requests |-> 2]

\* The text whole.cents is hits / total * 100 to two decimals: no other
\* multiple of 0.01 is nearer.
NearestHundredth(rate, hits, total) ==
    LET hundredths == rate[1] * 100 + rate[2]
        diff       == hundredths * total - hits * 10000
    IN  /\ rate[2] \in 0..99
        /\ 2 * diff <= total
        /\ 2 * diff >= 0 - total

\* C19: get_stats reports hit_rate as hits / total_requests * 100 with two
\* decimals (50.00 for 1 hit and 1 miss, 60.00 for 3 hits and 2 misses), a
\* zero rate and no error with zero total_requests, and the number of
\* entries of the local store as cache_size.
C19_HitRateTwoDecimals ==
    last.op = "get_stats" =>
        \A w \in Worlds :
            LET st == Stats(w)
                r  == last.report[w]
            IN  /\ ~last.raised[w]
                /\ r.cache_size = Len(mgr[w].cache)
                /\ st.total_requests = 0 => r.hit_rate = <<0, 0>>
                /\ st.total_requests > 0 =>
                      NearestHundredth(r.hit_rate, st.hits, st.total_requests)
                /\ (st.hits = 1 /\ st.misses = 1) => r.hit_rate = <<50, 0>>
                /\ (st.hits = 3 /\ st.misses = 2) => r.hit_rate = <<60, 0>>

\* get_stats reported 60.00% after 3 hits and 2 misses.
C19_Witness ==
    /\ last.op = "get_stats"
    /\ Stats("plain").hits = 3 /\ Stats("plain").misses = 2
    /\ last.report["plain"].hit_rate = <<60, 0>>
    /\ last.report["plain"].cache_size = 2

\* The calls before the i-th that were allowed less than period before it.
AllowedBefore(i) ==
    {j \in 1..(i - 1) :
        /\ limiter.asked[j].ok
        /\ limiter.asked[j].at > limiter.asked[i].at - period}

\* The allowed calls in the window of length period that ends at time t.
AllowedInWindow(t) ==
    {j \in 1..Len(limiter.asked) :
        /\ limiter.asked[j].ok
        /\ limiter.asked[j].at > t - period
        /\ limiter.asked[j].at <= t}

\* C20: is_allowed returns True for at most max_calls calls in any window of
\* length period and False for every further call in it, and True again once
\* fewer than max_calls allowed calls are younger than period.
C20_AtMostMaxCallsPerPeriod ==
    /\ \A t \in 0..MaxClock + 1 : Cardinality(AllowedInWindow(t)) <= max_calls
    /\ \A i \in 1..Len(limiter.asked) :
          limiter.asked[i].ok <=> Cardinality(AllowedBefore(i)) < max_calls

\* True, True, False at once, and True again when the two allowed calls were
\* exactly period old.
C20_Witness ==
    /\ Len(limiter.asked) = 4
    /\ \A i \in 1..3 : limiter.asked[i] = [at |-> 0, ok |-> i <= max_calls]
    /\ limiter.asked[4] = [at |-> period, ok |-> TRUE]

\* C21: with or without cache manager, get_session_stats on a session that
\* was not deleted reports every message that add_message accepted, whatever
\* became of the session's cache entry in between.
C21_MessagesStayInSession ==
    (chat.op = "get_session_stats" /\ chat.sid \notin chat.deleted) =>
        \A w \in ChatWorlds :
            chat.cm[w].active_sessions[chat.sid].exists =>
                /\ chat.report[w].found
                /\ chat.report[w].total_messages = Len(chat.accepted[w][chat.sid])
                /\ chat.report[w].user_messages
                       = CountRole(chat.accepted[w][chat.sid], "user")

\* C22: whatever the interleaving of two threads on one manager, the store
\* never holds more than max_size entries and no operation raises because
\* the other thread removed the entry it was about to delete.
C22_SafeUnderConcurrentAccess ==
    /\ Len(conc.cache) <= max_size
    /\ \A th \in Threads : conc.thread[th].pc # "raised"

\* C23: on a manager constructed with max_size <= 0, set raises nothing and
\* leaves no entry in the store other than the one it inserted.
C23_SetWithoutRoomCompletes ==
    last.op = "set" =>
        \A w \in Worlds :
            /\ ~last.raised[w]
            /\ KeysOf(mgr[w].cache) \subseteq {last.key}

\* C24: a set evicts exactly when its key is new and the store holds max_size
\* entries; it then removes one entry, the least recently used one, and adds
\* one to evictions; no other step removes an entry for capacity or changes
\* evictions, so evictions is the number of entries evicted.
C24_EvictsOnlyNewKeyIntoFullStore ==
    [][ \A w \in Worlds :
          LET c0     == mgr[w].cache
              c      == mgr'[w].cache
              evicts == /\ last'.op = "set"
                        /\ ~KeyIn(c0, last'.key)
                        /\ Len(c0) = max_size
          IN  /\ mgr'[w].stats.evictions
                     = mgr[w].stats.evictions + (IF evicts THEN 1 ELSE 0)
              /\ evicts => /\ DelKey(c, last'.key) = Tail(c0)
                            /\ Len(c) = max_size
              /\ (last'.op = "set" /\ ~evicts) =>
                     DelKey(c, last'.key) = DelKey(c0, last'.key)
      ]_vars

\* A third key was set into the full store: one eviction, two entries.
C24_Witness ==
    /\ last.op = "set"
    /\ ncalls = max_size + 1
    /\ \A w \in Worlds : /\ mgr[w].stats.evictions = 1
                          /\ Len(mgr[w].cache) = max_size
                          /\ ~KeyIn(mgr[w].cache, touched.order[1])

\* C25: a set of a key the store holds replaces the entry's value and
\* expires_at, makes it the most recently used, leaves the number of entries
\* and evictions as they were even in a full store, and a get that follows
\* returns the value of that set.
C25_SetReplacesExistingKey ==
    [][ /\ \A key \in Keys, a \in SetArgs :
            (\E coin \in BOOLEAN : Set(key, a[1], a[2], coin)) =>
                \A w \in Worlds :
                    KeyIn(mgr[w].cache, key) =>
                        /\ mgr'[w].cache =
                               Append(DelKey(mgr[w].cache, key),
                                      [key |-> key, value |-> a[1],
                                       expires_at |-> now + EffectiveTtl(a[2])])
                        /\ Len(mgr'[w].cache) = Len(mgr[w].cache)
                        /\ mgr'[w].stats.evictions = mgr[w].stats.evictions
        /\ (/\ last.op = "set" /\ last.repeat
            /\ last'.op = "get" /\ last'.key = last.key) =>
               \A w \in Worlds :
                   last'.ret[w] \in
                       { EntryOf(mgr[w].cache, last.key).value,
                         json_loads(json_dumps(EntryOf(mgr[w].cache, last.key).value)) }
      ]_vars

\* C26: a get that the mirror answers counts one request and one hit, no miss,
\* and leaves the local store as it was: the key is not inserted locally and
\* the local entries keep their contents and their order.
C26_MirrorHitLeavesLocalStore ==
    [][ last'.op = "get" =>
          \A w \in Worlds :
              last'.path[w] = "redis_hit" =>
                  /\ mgr'[w].cache = mgr[w].cache
                  /\ mgr'[w].stats =
                         [mgr[w].stats EXCEPT !.hits = @ + 1,
                                              !.total_requests = @ + 1]
      ]_vars

\* The mirror answered a get of a key that the local store had evicted, and
\* the local store still does not hold it.
C26_Witness ==
    /\ last.op = "get"
    /\ last.path["reachable"] = "redis_hit"
    /\ last.ret["reachable"] # None
    /\ ~KeyIn(mgr["reachable"].cache, last.key)
    /\ Len(mgr["reachable"].cache) = max_size
    /\ mgr["reachable"].stats.hits = 1

\* No entry of the store has expired at time t.
Swept(cache, t) == Unexpired(cache, t) = cache

\* C27: cleanup_expired leaves every surviving entry as it was (value,
\* expires_at, place among the survivors) and changes no counter; the store
\* it leaves has no expired entry, stays so until time passes, and a
\* cleanup_expired of such a store removes nothing and returns 0.
C27_CleanupKeepsSurvivors ==
    [][ \A w \in Worlds :
          /\ last'.op = "cleanup_expired" =>
                 /\ mgr'[w].cache =
                        SelectSeq(mgr[w].cache,
                                  LAMBDA e : KeyIn(mgr'[w].cache, e.key))
                 /\ mgr'[w].stats = mgr[w].stats
                 /\ Swept(mgr'[w].cache, now)
                 /\ Swept(mgr[w].cache, now) =>
                        /\ last'.removed[w] = 0
                        /\ mgr'[w].cache = mgr[w].cache
          /\ (Swept(mgr[w].cache, now) /\ last'.op # "tick") =>
                 Swept(mgr'[w].cache, now')
      ]_vars

\* Two cleanup_expired in a row a second after a set: the second returned 0
\* and the entry that had not expired is still there.
C27_Witness ==
    /\ last.op = "cleanup_expired" /\ last.repeat
    /\ now = 1
    /\ \A w \in Worlds : /\ last.removed[w] = 0
                          /\ Len(mgr[w].cache) = 1
                          /\ mgr[w].cache[1].expires_at = default_ttl

\* C28: a get that the local store answers changes nothing but the key it
\* reads: a key that is not there changes nothing, a live key becomes the
\* most recently used with its value and expires_at as they were, an expired
\* key is removed, and every other entry keeps its content and its place.
C28_LocalGetTouchesOnlyItsKey ==
    [][ last'.op = "get" =>
          \A w \in Worlds :
              last'.path[w] # "redis_hit" =>
                  LET c0 == mgr[w].cache
                      c  == mgr'[w].cache
                  IN  IF ~KeyIn(c0, last'.key)
                      THEN c = c0 /\ last'.path[w] = "miss"
                      ELSE IF EntryOf(c0, last'.key).expires_at > now
                      THEN /\ c = Append(DelKey(c0, last'.key),
                                         EntryOf(c0, last'.key))
                           /\ last'.path[w] = "local_hit"
                      ELSE /\ c = DelKey(c0, last'.key)
                           /\ Len(c) = Len(c0) - 1
                           /\ last'.path[w] = "expired"
      ]_vars

\* A second after it was set, one of two entries was read with a hit: it is
\* the most recently used one and still expires when it did.
C28_Witness ==
    /\ last.op = "get"
    /\ now = 1
    /\ last.path["plain"] = "local_hit"
    /\ Len(mgr["plain"].cache) = max_size
    /\ mgr["plain"].cache[max_size].key = last.key
    /\ mgr["plain"].cache[max_size].expires_at = default_ttl
    /\ mgr["plain"].stats.hits = 1

\* C29: the set of a new key looks at the number of entries and at their
\* order only, never at their expiry: with max_size entries in the store,
\* expired ones included, it removes the first one in recency order, expired
\* or not, and every other entry stays, expired or not; with fewer entries it
\* removes none.
C29_EvictionIgnoresExpiry ==
    [][ last'.op = "set" =>
          \A w \in Worlds :
              LET c0 == mgr[w].cache
                  c  == mgr'[w].cache
              IN  ~KeyIn(c0, last'.key) =>
                      /\ Len(c) = IF Len(c0) = max_size THEN max_size
                                  ELSE Len(c0) + 1
                      /\ Len(c0) = max_size => ~KeyIn(c, c0[1].key)
                      /\ \A i \in 1..Len(c0) :
                             (i > 1 \/ Len(c0) < max_size) =>
                                 /\ KeyIn(c, c0[i].key)
                                 /\ EntryOf(c, c0[i].key) = c0[i]
      ]_vars

\* A set evicted an entry that the mirror still holds, a live one, and left
\* the expired entry in the store.
C29_Witness ==
    /\ last.op = "set"
    /\ now = 1
    /\ mgr["plain"].stats.evictions = 1
    /\ Len(mgr["plain"].cache) = max_size
    /\ mgr["plain"].cache[1].expires_at <= now
    /\ \E key \in Keys :
           /\ ~KeyIn(mgr["plain"].cache, key)
           /\ redisdb["reachable"][key].kind # "nil"
           /\ redisdb["reachable"][key].expires_at > now

\* The times of the allowed calls that are younger than period at time t, in
\* the order of the calls.
AllowedTimes(t) ==
    LET allowed == SelectSeq(limiter.asked,
                             LAMBDA a : a.ok /\ a.at > t - period)
    IN  [i \in 1..Len(allowed) |-> allowed[i].at]

\* C30: after any sequence of is_allowed calls the recorded call times are
\* the times of the allowed calls that were younger than period at the last
\* call, and no more than max_calls of them: a denied call records nothing,
\* so it cannot put off the time when a call is allowed again.
C30_DeniedCallsRecordNothing ==
    /\ Len(limiter.calls) <= max_calls
    /\ IF Len(limiter.asked) = 0
       THEN limiter.calls = <<>>
       ELSE limiter.calls = AllowedTimes(limiter.asked[Len(limiter.asked)].at)

\* Two allowed calls, then denied calls at 0 and at 1, and the call at time
\* period is allowed all the same and is the only one recorded.
C30_Witness ==
    /\ Len(limiter.asked) = 5
    /\ \A i \in 1..3 : limiter.asked[i] = [at |-> 0, ok |-> i <= max_calls]
    /\ limiter.asked[4] = [at |-> 1, ok |-> FALSE]
    /\ limiter.asked[5] = [at |-> period, ok |-> TRUE]
    /\ limiter.calls = <<period>>

====
